---- MODULE Spec2Model ----
(***************************************************************************)
(* Model of tracking_project/radial_analyzer.py (class RadialAnalyzer).    *)
(*                                                                         *)
(* Numbers.  Spot coordinates are small integers.  Every derived float of  *)
(* the code is kept exactly:                                               *)
(*   center_x, center_y      [num, den]   the rational num / den           *)
(*   radial_distance         [sq, den]    the value sqrt(sq) / den         *)
(*   radial_velocity         [num, sq]    the value num / sqrt(sq)         *)
(*   radial_velocity_theta   [dy, dx]     the angle arctan2(dy, dx)        *)
(* With n spots in a file and S = sum of POSITION_X, the centroid is S/n,  *)
(* n * (center_x - source_x) = S - n * source_x is an integer, and the     *)
(* unit radial direction is that integer vector over its own length.       *)
(*                                                                         *)
(* A DataFrame is [columns |-> set of column names, rows |-> sequence of   *)
(* records]; an edge row carries its pandas row label in field "index".    *)
(***************************************************************************)
EXTENDS Integers, Sequences, FiniteSets, TLC

VARIABLES
    spot_table,   \* self.spot_table  (the caller's spot DataFrame rows)
    edge_table,   \* self.edge_table  (the analyzer's copy of the edge rows)
    op,           \* the method that ran last: "init", "process_file", "process_all_files"
    arg,          \* the file_id passed to process_file ("" otherwise)
    raised,       \* "none", or the exception the call ended with
    result,       \* the DataFrame the call returned (NoFrame when it raised)
    calls,        \* the file_ids process_file was entered with during the call
    caller_edge_table,  \* the edge DataFrame the caller passed to __init__
    series,       \* the Series calculate_radial_persistence returned last
    passes,       \* how often calculate_radial_persistence ran on result
    csv_files,    \* the CSV files one pipeline run loads
    loaded,       \* the files loaded so far, each with the File_ID of its rows
    saved         \* the output files the pipeline run wrote, in order

vars == <<spot_table, edge_table, op, arg, raised, result, calls,
          caller_edge_table, series, passes, csv_files, loaded, saved>>

(***************************************************************************)
(* Bounds and input domains                                                *)
(***************************************************************************)
MaxSpots == 2          \* rows of the spot table, specification Spec
MaxEdges == 2          \* rows of the edge table, specification Spec
MaxGeomSpots == 3      \* rows of the spot table, specification SpecGeom
MaxPasses == 2         \* persistence passes over one table
MaxFiles == 2          \* CSV files on disk, specification SpecLoader

Files == {"F1", "F2"}
Ids == {0, 1}
Points == {<<0, 0>>, <<1, 2>>}     \* positions used by Spec
GridX == {0, 1, 2, 3}              \* POSITION_X used by SpecGeom, SpecTime
GridY == {0, 1}                    \* POSITION_Y used by SpecGeom, SpecTime
Times == {0, 60, 120}              \* POSITION_T in seconds, SpecTime

SeqsUpTo(S, n) == UNION {[1 .. k -> S] : k \in 0 .. n}

\* pandas gives the rows of a freshly built table the labels 0, 1, 2, ...
WithIndex(rows) ==
    [i \in 1 .. Len(rows) |->
        [index |-> i - 1,
         File_ID |-> rows[i].File_ID,
         SPOT_SOURCE_ID |-> rows[i].SPOT_SOURCE_ID,
         SPOT_TARGET_ID |-> rows[i].SPOT_TARGET_ID]]

EdgeColumns == {"File_ID", "SPOT_SOURCE_ID", "SPOT_TARGET_ID"}
RadialColumns ==
    {"u", "v", "source_x", "source_y", "target_x", "target_y",
     "radial_distance", "radial_velocity", "radial_velocity_theta",
     "center_x", "center_y"}

\* pd.DataFrame(): no rows, no columns
EmptyFrame == [columns |-> {}, rows |-> <<>>]
\* the value of result when the call raised and returned nothing
NoFrame == [columns |-> {}, rows |-> <<>>]

\* DataFrame.empty
IsEmpty(df) == df.columns = {} \/ df.rows = <<>>

(***************************************************************************)
(* RadialAnalyzer.process_file                                             *)
(***************************************************************************)
RECURSIVE SumX(_)
SumX(spots) ==
    IF spots = <<>> THEN 0 ELSE spots[1].POSITION_X + SumX(Tail(spots))

RECURSIVE SumY(_)
SumY(spots) ==
    IF spots = <<>> THEN 0 ELSE spots[1].POSITION_Y + SumY(Tail(spots))

\* the position of the first spot taken for the centre
CentroidOfFirst(spots) ==
    [x |-> [num |-> spots[1].POSITION_X, den |-> 1],
     y |-> [num |-> spots[1].POSITION_Y, den |-> 1]]

\* spots['POSITION_X'].mean(), spots['POSITION_Y'].mean()
Centroid(spots) ==
    [x |-> [num |-> SumX(spots), den |-> Len(spots)],
     y |-> [num |-> SumY(spots), den |-> Len(spots)]]

\* spots[spots['ID'] == id]
SpotsWithId(spots, id) == SelectSeq(spots, LAMBDA s : s.ID = id)

\* the projection on the inward direction without the change of sign
RadialVelocityInward(u, v, dx, dy) ==
    IF dx * dx + dy * dy # 0
    THEN [num |-> u * dx + v * dy, sq |-> dx * dx + dy * dy]
    ELSE [num |-> 0, sq |-> 1]

\* the projection without the test r_source != 0: 0 / 0 at the centre
RadialVelocityUnguarded(u, v, dx, dy) ==
    [num |-> -(u * dx + v * dy), sq |-> dx * dx + dy * dy]

\* lines 81-89: radial distance, direction angle and radial velocity
RadialVelocity(u, v, dx, dy) ==
    IF dx * dx + dy * dy # 0
    THEN [num |-> -(u * dx + v * dy), sq |-> dx * dx + dy * dy]
    ELSE [num |-> 0, sq |-> 1]

RadialTheta(dx, dy) ==
    IF dx * dx + dy * dy # 0
    THEN [dy |-> dy, dx |-> dx]
    ELSE [dy |-> 0, dx |-> 1]       \* radial_direction = 0

\* lines 71-102: the values appended to the lists for one resolved edge
EdgeValues(source, target, center) ==
    LET n  == center.x.den
        u  == target.POSITION_X - source.POSITION_X
        v  == target.POSITION_Y - source.POSITION_Y
        dx == center.x.num - n * source.POSITION_X   \* n * (center_x - source_x)
        dy == center.y.num - n * source.POSITION_Y   \* n * (center_y - source_y)
    IN  [u |-> u, v |-> v,
         source_x |-> source.POSITION_X, source_y |-> source.POSITION_Y,
         target_x |-> target.POSITION_X, target_y |-> target.POSITION_Y,
         radial_distance |-> [sq |-> dx * dx + dy * dy, den |-> n],
         radial_velocity |-> RadialVelocity(u, v, dx, dy),
         radial_velocity_theta |-> RadialTheta(dx, dy),
         center_x |-> center.x, center_y |-> center.y]

\* lines 61-102: the loop over the edges; an edge with a missing spot is
\* passed over and appends nothing
RECURSIVE EdgeLoop(_, _, _)
EdgeLoop(spots, edges, center) ==
    IF edges = <<>> THEN <<>>
    ELSE LET row == edges[1]
             source_spot == SpotsWithId(spots, row.SPOT_SOURCE_ID)
             target_spot == SpotsWithId(spots, row.SPOT_TARGET_ID)
         IN  IF source_spot = <<>> \/ target_spot = <<>>
             THEN EdgeLoop(spots, Tail(edges), center)
             ELSE <<EdgeValues(source_spot[1], target_spot[1], center)>>
                      \o EdgeLoop(spots, Tail(edges), center)

\* one row of edges after the eleven column assignments of lines 105-115
WithComputed(e, c) ==
    [index |-> e.index, File_ID |-> e.File_ID,
     SPOT_SOURCE_ID |-> e.SPOT_SOURCE_ID, SPOT_TARGET_ID |-> e.SPOT_TARGET_ID,
     u |-> c.u, v |-> c.v,
     source_x |-> c.source_x, source_y |-> c.source_y,
     target_x |-> c.target_x, target_y |-> c.target_y,
     radial_distance |-> c.radial_distance,
     radial_velocity |-> c.radial_velocity,
     radial_velocity_theta |-> c.radial_velocity_theta,
     center_x |-> c.center_x, center_y |-> c.center_y]

\* lines 105-115: edges.loc[:, col] = values adds a column; pandas raises
\* ValueError when the list is not as long as the frame
AssignColumns(edges, values) ==
    IF Len(values) # Len(edges)
    THEN [raised |-> "ValueError", frame |-> NoFrame]
    ELSE [raised |-> "none",
          frame |-> [columns |-> EdgeColumns \cup RadialColumns,
                     rows |-> [i \in 1 .. Len(edges) |->
                                  WithComputed(edges[i], values[i])]]]

\* a variant that looks the endpoints up among the spots of every file
process_file_any_file(st, et, file_id) ==
    LET spots == SelectSeq(st, LAMBDA s : s.File_ID = file_id)
        edges == SelectSeq(et, LAMBDA e : e.File_ID = file_id)
    IN  IF spots = <<>> \/ edges = <<>>
        THEN [raised |-> "none",
              frame |-> [columns |-> EdgeColumns, rows |-> edges]]
        ELSE AssignColumns(edges, EdgeLoop(st, edges, Centroid(spots)))

\* lines 39-45 and 104-117: the rows of one file, the early return, and the
\* column assignments
process_file(st, et, file_id) ==
    LET spots == SelectSeq(st, LAMBDA s : s.File_ID = file_id)
        edges == SelectSeq(et, LAMBDA e : e.File_ID = file_id)
    IN  IF spots = <<>> \/ edges = <<>>
        THEN [raised |-> "none",
              frame |-> [columns |-> EdgeColumns, rows |-> edges]]
        ELSE AssignColumns(edges, EdgeLoop(spots, edges, Centroid(spots)))

(***************************************************************************)
(* RadialAnalyzer.process_all_files                                        *)
(***************************************************************************)
\* Series.unique(): the distinct values in order of first appearance
RECURSIVE unique(_)
unique(s) ==
    IF s = <<>> THEN <<>>
    ELSE LET r == unique(SubSeq(s, 1, Len(s) - 1))
             last == s[Len(s)]
         IN  IF \E i \in 1 .. Len(r) : r[i] = last THEN r ELSE Append(r, last)

FileIds(st) == unique([i \in 1 .. Len(st) |-> st[i].File_ID])

\* lines 129-132: the loop; an exception of process_file ends it
RECURSIVE FileLoop(_, _, _, _, _)
FileLoop(st, et, file_ids, processed_edges_list, entered) ==
    IF file_ids = <<>>
    THEN [raised |-> "none", list |-> processed_edges_list, calls |-> entered]
    ELSE LET fid == file_ids[1]
             r == process_file(st, et, fid)
         IN  IF r.raised # "none"
             THEN [raised |-> r.raised, list |-> processed_edges_list,
                   calls |-> Append(entered, fid)]
             ELSE FileLoop(st, et, Tail(file_ids),
                           IF IsEmpty(r.frame) THEN processed_edges_list
                           ELSE Append(processed_edges_list, r.frame),
                           Append(entered, fid))

RECURSIVE ConcatRows(_)
ConcatRows(frames) ==
    IF frames = <<>> THEN <<>> ELSE frames[1].rows \o ConcatRows(Tail(frames))

\* ignore_index = True: the rows are relabelled 0, 1, 2, ...
Relabel(rows) ==
    [i \in 1 .. Len(rows) |-> [rows[i] EXCEPT !.index = i - 1]]

\* pd.concat(frames, ignore_index=True)
concat(frames) ==
    [columns |-> UNION {frames[i].columns : i \in 1 .. Len(frames)},
     rows |-> Relabel(ConcatRows(frames))]

process_all_files(st, et) ==
    LET r == FileLoop(st, et, FileIds(st), <<>>, <<>>)
    IN  IF r.raised # "none"
        THEN [raised |-> r.raised, frame |-> NoFrame, calls |-> r.calls]
        ELSE [raised |-> "none",
              frame |-> IF r.list # <<>> THEN concat(r.list) ELSE EmptyFrame,
              calls |-> r.calls]

(***************************************************************************)
(* RadialAnalyzer.calculate_radial_persistence                             *)
(* radial_persistence is kept as [num, sq], the value num / sqrt(sq):      *)
(* radial_velocity / sqrt(u^2 + v^2) = rv.num / sqrt(rv.sq * (u^2 + v^2)). *)
(***************************************************************************)
\* the division without np.where: 0 / 0 on a row that does not move
PersistenceUnguarded(row) ==
    [num |-> row.radial_velocity.num,
     sq |-> row.radial_velocity.sq * (row.u * row.u + row.v * row.v)]

\* lines 149-154
Persistence(row) ==
    IF row.u * row.u + row.v * row.v # 0
    THEN [num |-> row.radial_velocity.num,
          sq |-> row.radial_velocity.sq * (row.u * row.u + row.v * row.v)]
    ELSE [num |-> 0, sq |-> 1]

\* the columns line 149-152 read; a missing one raises KeyError
PersistenceInputs == {"u", "v", "radial_velocity"}

\* a variant that also stores the ratio back into radial_velocity
calculate_radial_persistence_overwriting(edge_data) ==
    IF ~(PersistenceInputs \subseteq edge_data.columns)
    THEN [raised |-> "KeyError", frame |-> edge_data, series |-> <<>>]
    ELSE LET radial_persistence ==
                 [i \in 1 .. Len(edge_data.rows) |-> Persistence(edge_data.rows[i])]
         IN  [raised |-> "none",
              frame |-> [columns |-> edge_data.columns \cup {"radial_persistence"},
                         rows |-> [i \in 1 .. Len(edge_data.rows) |->
                                      ("radial_persistence" :> radial_persistence[i])
                                          @@ [edge_data.rows[i] EXCEPT
                                                 !.radial_velocity = radial_persistence[i]]]],
              series |-> radial_persistence]

\* a variant that keeps only the rows that move
calculate_radial_persistence_filtering(edge_data) ==
    IF ~(PersistenceInputs \subseteq edge_data.columns)
    THEN [raised |-> "KeyError", frame |-> edge_data, series |-> <<>>]
    ELSE LET moving == SelectSeq(edge_data.rows,
                                 LAMBDA r : r.u * r.u + r.v * r.v # 0)
             radial_persistence ==
                 [i \in 1 .. Len(moving) |-> Persistence(moving[i])]
         IN  [raised |-> "none",
              frame |-> [columns |-> edge_data.columns \cup {"radial_persistence"},
                         rows |-> [i \in 1 .. Len(moving) |->
                                      ("radial_persistence" :> radial_persistence[i])
                                          @@ moving[i]]],
              series |-> radial_persistence]

\* lines 138-156: the column is written into edge_data itself
calculate_radial_persistence(edge_data) ==
    IF ~(PersistenceInputs \subseteq edge_data.columns)
    THEN [raised |-> "KeyError", frame |-> edge_data, series |-> <<>>]
    ELSE LET radial_persistence ==
                 [i \in 1 .. Len(edge_data.rows) |-> Persistence(edge_data.rows[i])]
         IN  [raised |-> "none",
              frame |-> [columns |-> edge_data.columns \cup {"radial_persistence"},
                         rows |-> [i \in 1 .. Len(edge_data.rows) |->
                                      ("radial_persistence" :> radial_persistence[i])
                                          @@ edge_data.rows[i]]],
              series |-> radial_persistence]

(***************************************************************************)
(* TrackingPipeline.run_radial_analysis / run_radial_analysis_combined:    *)
(* process_all_files, then calculate_radial_persistence on its result      *)
(***************************************************************************)
run_radial_analysis(st, et) ==
    LET processed_edges == process_all_files(st, et)
    IN  IF processed_edges.raised # "none"
        THEN [raised |-> processed_edges.raised, frame |-> NoFrame,
              series |-> <<>>, calls |-> processed_edges.calls]
        ELSE LET p == calculate_radial_persistence(processed_edges.frame)
             IN  [raised |-> p.raised,
                  frame |-> IF p.raised = "none" THEN p.frame ELSE NoFrame,
                  series |-> p.series, calls |-> processed_edges.calls]

(***************************************************************************)
(* The state machine                                                       *)
(***************************************************************************)
NothingLoaded == csv_files = {} /\ loaded = {} /\ saved = <<>>

Constructed ==
    /\ op = "init" /\ arg = "" /\ raised = "none"
    /\ result = NoFrame /\ calls = <<>>
    /\ caller_edge_table = edge_table     \* line 21: edge_table.copy()
    /\ series = <<>> /\ passes = 0
    /\ NothingLoaded

\* RadialAnalyzer(spot_table, edge_table) on tables of up to MaxSpots spots
\* and MaxEdges edges over two files
Init ==
    /\ spot_table \in SeqsUpTo(
           {[File_ID |-> f, ID |-> id, POSITION_X |-> p[1], POSITION_Y |-> p[2],
             POSITION_T |-> 0] : f \in Files, id \in Ids, p \in Points}, MaxSpots)
    /\ \E rows \in SeqsUpTo(
           [File_ID : Files, SPOT_SOURCE_ID : Ids, SPOT_TARGET_ID : Ids], MaxEdges) :
           edge_table = WithIndex(rows)
    /\ Constructed

\* a variant that writes the computed columns into the table it was given
ProcessFileInPlace(file_id) ==
    LET r == process_file(spot_table, edge_table, file_id)
    IN  /\ op' = "process_file"
        /\ arg' = file_id
        /\ raised' = r.raised
        /\ result' = r.frame
        /\ calls' = <<file_id>>
        /\ caller_edge_table' =
               [i \in DOMAIN caller_edge_table |->
                   IF \E j \in DOMAIN r.frame.rows :
                          r.frame.rows[j].index = caller_edge_table[i].index
                   THEN r.frame.rows[CHOOSE j \in DOMAIN r.frame.rows :
                            r.frame.rows[j].index = caller_edge_table[i].index]
                   ELSE caller_edge_table[i]]
        /\ passes' = 0
        /\ UNCHANGED <<spot_table, edge_table, series, csv_files, loaded, saved>>

\* process_file filters into new frames and writes only to its own copy
\* `edges` (line 41): no table of the analyzer or of the caller is written
ProcessFile(file_id) ==
    LET r == process_file(spot_table, edge_table, file_id)
    IN  /\ op' = "process_file"
        /\ arg' = file_id
        /\ raised' = r.raised
        /\ result' = r.frame
        /\ calls' = <<file_id>>
        /\ passes' = 0
        /\ UNCHANGED <<spot_table, edge_table, caller_edge_table, series,
                       csv_files, loaded, saved>>

ProcessAllFiles ==
    LET r == process_all_files(spot_table, edge_table)
    IN  /\ op' = "process_all_files"
        /\ arg' = ""
        /\ raised' = r.raised
        /\ result' = r.frame
        /\ calls' = r.calls
        /\ passes' = 0
        /\ UNCHANGED <<spot_table, edge_table, caller_edge_table, series,
                       csv_files, loaded, saved>>

\* calculate_radial_persistence(result): the caller passes the table the
\* last call returned; the method writes the new column into that table
CalculateRadialPersistence ==
    /\ op # "init" /\ raised = "none"
    /\ passes < MaxPasses
    /\ LET r == calculate_radial_persistence(result)
       IN  /\ op' = "calculate_radial_persistence"
           /\ raised' = r.raised
           /\ result' = r.frame
           /\ series' = r.series
           /\ passes' = IF r.raised = "none" THEN passes + 1 ELSE passes
    /\ UNCHANGED <<spot_table, edge_table, caller_edge_table, arg, calls,
                   csv_files, loaded, saved>>

RunRadialAnalysis ==
    LET r == run_radial_analysis(spot_table, edge_table)
    IN  /\ op' = "run_radial_analysis"
        /\ arg' = ""
        /\ raised' = r.raised
        /\ result' = r.frame
        /\ series' = r.series
        /\ calls' = r.calls
        /\ passes' = IF r.raised = "none" THEN 1 ELSE 0
        /\ UNCHANGED <<spot_table, edge_table, caller_edge_table,
                       csv_files, loaded, saved>>

Next ==
    \/ \E file_id \in Files : ProcessFile(file_id)
    \/ ProcessAllFiles

Spec == Init /\ [][Next]_vars

NextBatch ==
    \/ Next
    \/ CalculateRadialPersistence
    \/ RunRadialAnalysis

\* the tables of Spec, with the persistence pass and the batch run
SpecBatch == Init /\ [][NextBatch]_vars


(***************************************************************************)
(* Further families of inputs for the same analyzer.                       *)
(* SpecPaired: the tables of Spec in which every edge belongs to a file    *)
(* that has spots, as when each edges CSV is loaded beside its spots CSV.  *)
(* SpecGeom: one colony, spots with IDs 1..n anywhere on a 4 x 2 grid, one *)
(* edge between two of them.  SpecTime: the same with up to two spots and  *)
(* POSITION_T in {0, 60, 120} seconds.                                     *)
(***************************************************************************)
InitPaired ==
    /\ Init
    /\ \A i \in DOMAIN edge_table : \E j \in DOMAIN spot_table :
           spot_table[j].File_ID = edge_table[i].File_ID

SpecPaired == InitPaired /\ [][Next]_vars

OneColony(n, ts) ==
    \E xy \in [1 .. n -> GridX \X GridY] : \E t \in [1 .. n -> ts] :
    \E src \in 1 .. n : \E tgt \in 1 .. n :
        /\ t[src] <= t[tgt]          \* a link never goes back in time
        /\ spot_table = [i \in 1 .. n |->
               [File_ID |-> "F1", ID |-> i, POSITION_X |-> xy[i][1],
                POSITION_Y |-> xy[i][2], POSITION_T |-> t[i]]]
        /\ edge_table = WithIndex(<<[File_ID |-> "F1", SPOT_SOURCE_ID |-> src,
                                     SPOT_TARGET_ID |-> tgt]>>)

InitGeom == (\E n \in 1 .. MaxGeomSpots : OneColony(n, {0})) /\ Constructed

SpecGeom == InitGeom /\ [][Next]_vars

InitTime == (\E n \in 1 .. 2 : OneColony(n, Times)) /\ Constructed

SpecTime == InitTime /\ [][Next]_vars

\* one colony of n spots on a 3 x 2 grid and one edge between two of them
PersistX == {0, 1, 2}
ColonyOnGrid(n) ==
    \E xy \in [1 .. n -> PersistX \X GridY] :
    \E src \in 1 .. n : \E tgt \in 1 .. n :
        /\ spot_table = [i \in 1 .. n |->
               [File_ID |-> "F1", ID |-> i, POSITION_X |-> xy[i][1],
                POSITION_Y |-> xy[i][2], POSITION_T |-> 0]]
        /\ edge_table = WithIndex(<<[File_ID |-> "F1", SPOT_SOURCE_ID |-> src,
                                     SPOT_TARGET_ID |-> tgt]>>)

InitPersist == (\E n \in 1 .. MaxGeomSpots : ColonyOnGrid(n)) /\ Constructed

\* such colonies, with the persistence pass and the batch run
SpecPersist == InitPersist /\ [][NextBatch]_vars

(***************************************************************************)
(* BaseDataLoader and the loading runs of TrackingPipeline.                *)
(* A name is the sequence of its parts between underscores: "c1_spots" is  *)
(* <<"c1", "spots">>, and f"{a}_{b}" is a \o b.  A folder is the sequence  *)
(* of the names on its path below the base data path; a CSV file is a      *)
(* folder, a stem and its data rows.  Of the columns a loaded table has,   *)
(* the model keeps the File_ID and those the analyzer reads.               *)
(***************************************************************************)
DataTypes == {"spots", "edges"}
Offsets == {<<"offset", "1">>, <<"offset", "2">>}
GroupDirs == {<<"control">>, <<"treatment">>}
Stems == {<<"c1", "spots">>, <<"c1", "edges">>, <<"c2", "spots">>,
          <<"c2", "edges">>, <<"c1">>}

\* str.capitalize() and str.lower() on the group names in use
Capitalize(str) ==
    CASE str \in {"wildtype", "Wildtype"} -> "Wildtype"
      [] str \in {"control", "Control"} -> "Control"
      [] str \in {"treatment", "Treatment"} -> "Treatment"
Lower(str) ==
    CASE str \in {"wildtype", "Wildtype"} -> "wildtype"
      [] str \in {"control", "Control"} -> "control"
      [] str \in {"treatment", "Treatment"} -> "treatment"

\* offset_folder / data_type and offset_folder / group.lower() / data_type
WildtypeFolder(offset, data_type) == <<offset, <<data_type>>>>
GroupFolder(offset, group_dir, data_type) == <<offset, group_dir, <<data_type>>>>

\* CSV files that hold the header lines and no data row
AllCsv ==
    {[folder |-> WildtypeFolder(o, d), stem |-> st, rows |-> <<>>] :
         o \in Offsets, d \in DataTypes, st \in Stems}
    \cup {[folder |-> GroupFolder(o, g, d), stem |-> st, rows |-> <<>>] :
         o \in Offsets, g \in GroupDirs, d \in DataTypes, st \in Stems}

\* the stem is used whole as the base id
KeepStem(stem, data_type) == stem

\* lines 24-30: stem.endswith("_" + data_type) cuts that suffix off
BaseId(stem, data_type) ==
    IF Len(stem) >= 2 /\ stem[Len(stem)] = data_type
    THEN SubSeq(stem, 1, Len(stem) - 1)
    ELSE stem

\* lines 33-39: folder.parent.name, or the two names above the folder
ReplicateId(folder, group_label) ==
    IF Lower(group_label) = "wildtype"
    THEN folder[Len(folder) - 1]
    ELSE folder[Len(folder) - 2] \o folder[Len(folder) - 1]

\* lines 42-44: the tags load_and_prepare_data puts on every row of a file
load_and_prepare_data(file, group_label, data_type) ==
    [file |-> file, data_type |-> data_type, Group |-> group_label,
     File_ID |-> BaseId(file.stem, data_type)
                     \o ReplicateId(file.folder, group_label)]

\* BaseDataLoader.load_all: every CSV file of the folder
load_all(files, folder, group_label, data_type) ==
    {load_and_prepare_data(file, group_label, data_type) :
         file \in {f \in files : f.folder = folder}}

FolderExists(files, folder) == \E f \in files : f.folder = folder

\* the data columns of a CSV file of each type that the model keeps
DataColumns(data_type) ==
    CASE data_type = "spots" -> {"ID", "POSITION_X", "POSITION_Y", "POSITION_T"}
      [] data_type = "edges" -> {"SPOT_SOURCE_ID", "SPOT_TARGET_ID"}
      [] data_type = "tracks" -> {"TRACK_ID"}

\* os.listdir: the files of a folder in some order
RECURSIVE ListDir(_)
ListDir(files) ==
    IF files = {} THEN <<>>
    ELSE LET f == CHOOSE g \in files : TRUE
         IN  <<f>> \o ListDir(files \ {f})

\* line 43: data_table['File_ID'] = unique_id on every row of the file
Tagged(file, group_label, data_type) ==
    [i \in 1 .. Len(file.rows) |->
        ("File_ID" :> load_and_prepare_data(file, group_label, data_type).File_ID)
            @@ file.rows[i]]

RECURSIVE TaggedRows(_, _, _)
TaggedRows(names, group_label, data_type) ==
    IF names = <<>> THEN <<>>
    ELSE Tagged(names[1], group_label, data_type)
             \o TaggedRows(Tail(names), group_label, data_type)

\* pd.concat(..., ignore_index=True) of loaded tables: the edge rows carry
\* their label, as the analyzer's edge table does
combine(frames, data_type) ==
    [columns |-> UNION {frames[i].columns : i \in 1 .. Len(frames)},
     rows |-> IF data_type = "edges" THEN WithIndex(ConcatRows(frames))
              ELSE ConcatRows(frames)]

\* BaseDataLoader.load_all (lines 59-70): the combined table of the folder
load_frame(files, folder, group_label, data_type) ==
    LET names == ListDir({f \in files : f.folder = folder})
    IN  IF names = <<>> THEN EmptyFrame
        ELSE combine(<<[columns |-> DataColumns(data_type) \cup {"File_ID"},
                        rows |-> TaggedRows(names, group_label, data_type)]>>,
                     data_type)

\* float(offset_folder.name.split("_")[-1]) succeeds on these
IsFloat(str) == str \in {"1", "2"}

\* run_single_replicate: one folder of one replicate
run_single_replicate(files, offset, data_type, group) ==
    LET folder == IF Lower(group) = "wildtype"
                  THEN WildtypeFolder(offset, data_type)
                  ELSE GroupFolder(offset, <<Lower(group)>>, data_type)
    IN  IF ~FolderExists(files, folder)
        THEN [raised |-> "FileNotFoundError", loaded |-> {}, frame |-> NoFrame]
        ELSE IF ~IsFloat(offset[Len(offset)])
        THEN [raised |-> "ValueError", loaded |-> {}, frame |-> NoFrame]
        ELSE [raised |-> "none",
              loaded |-> load_all(files, folder, Capitalize(group), data_type),
              frame |-> load_frame(files, folder, Capitalize(group), data_type)]

\* sorted(base_data_path.glob("offset_*")) over the folder names in use
OffsetOrder == <<<<"offset", "1">>, <<"offset", "2">>, <<"offset", "x">>>>
discover_offsets(files) ==
    SelectSeq(OffsetOrder, LAMBDA o : \E f \in files : f.folder[1] = o)

DataTypeOrder == <<"spots", "edges", "tracks">>

\* lines 74-79: the loop over the offset folders for one data type; an
\* exception of run_single_replicate is printed and the loop goes on
RECURSIVE ReplicateLoop(_, _, _, _, _)
ReplicateLoop(files, data_type, offsets, df_list, attempts) ==
    IF offsets = <<>>
    THEN [df_list |-> df_list, loaded |-> {}, attempts |-> attempts]
    ELSE LET r == run_single_replicate(files, offsets[1], data_type, "Wildtype")
             t == Append(attempts, [data_type |-> data_type,
                                    offset |-> offsets[1], raised |-> r.raised])
             rest == ReplicateLoop(files, data_type, Tail(offsets),
                                   IF r.raised = "none"
                                   THEN Append(df_list, r.frame) ELSE df_list, t)
         IN  [rest EXCEPT !.loaded = r.loaded \cup rest.loaded]

\* lines 72-88: for each data type in turn, the loop, the combined table
\* and the pickle written for it
RECURSIVE DataTypeLoop(_, _, _, _)
DataTypeLoop(files, offsets, data_types, attempts) ==
    IF data_types = <<>>
    THEN [saved |-> <<>>, loaded |-> {}, attempts |-> attempts]
    ELSE LET data_type == data_types[1]
             l == ReplicateLoop(files, data_type, offsets, <<>>, attempts)
             combined_df == IF l.df_list # <<>> THEN combine(l.df_list, data_type)
                            ELSE EmptyFrame
             rest == DataTypeLoop(files, offsets, Tail(data_types), l.attempts)
         IN  [saved |-> <<[path |-> <<"wildtype", data_type>>,
                           frame |-> combined_df]>> \o rest.saved,
              loaded |-> l.loaded \cup rest.loaded,
              attempts |-> rest.attempts]

\* run_wildtype (lines 66-89); all_data maps each data type to its table
run_wildtype(files) ==
    LET offset_folders == discover_offsets(files)
        r == DataTypeLoop(files, offset_folders, DataTypeOrder, <<>>)
    IN  IF offset_folders = <<>>
        THEN [raised |-> "FileNotFoundError", all_data |-> NoFrame,
              saved |-> <<>>, loaded |-> {}, attempts |-> <<>>]
        ELSE [raised |-> "none",
              all_data |-> [i \in 1 .. Len(r.saved) |-> r.saved[i].frame],
              saved |-> r.saved, loaded |-> r.loaded, attempts |-> r.attempts]

\* run_treatment_control: every group folder discover_group_folders finds
\* under every offset folder, every data type it has
run_treatment_control(files) ==
    UNION {load_all(files, GroupFolder(o, g, d), Capitalize(g[1]), d) :
               o \in Offsets, g \in GroupDirs, d \in DataTypes}

NoAnalyzer ==
    /\ spot_table = <<>> /\ edge_table = <<>> /\ caller_edge_table = <<>>
    /\ op = "init" /\ arg = "" /\ raised = "none"
    /\ result = NoFrame /\ calls = <<>> /\ series = <<>> /\ passes = 0
    /\ loaded = {} /\ saved = <<>>

\* up to MaxFiles CSV files below the base data path, nothing loaded yet
InitLoader ==
    /\ NoAnalyzer
    /\ \E names \in SeqsUpTo(AllCsv, MaxFiles) :
           csv_files = {names[i] : i \in DOMAIN names}

RunSingleReplicate(offset, data_type, group) ==
    LET r == run_single_replicate(csv_files, offset, data_type, group)
    IN  /\ op' = "run_single_replicate"
        /\ raised' = r.raised
        /\ loaded' = r.loaded
        /\ result' = r.frame
        /\ UNCHANGED <<spot_table, edge_table, caller_edge_table, arg,
                       calls, series, passes, csv_files, saved>>

RunWildtype ==
    LET r == run_wildtype(csv_files)
    IN  /\ op' = "run_wildtype"
        /\ raised' = r.raised
        /\ loaded' = r.loaded
        /\ result' = r.all_data
        /\ calls' = r.attempts
        /\ saved' = r.saved
        /\ UNCHANGED <<spot_table, edge_table, caller_edge_table, arg,
                       series, passes, csv_files>>

RunTreatmentControl ==
    /\ op' = "run_treatment_control"
    /\ raised' = IF csv_files = {} THEN "FileNotFoundError" ELSE "none"
    /\ loaded' = run_treatment_control(csv_files)
    /\ UNCHANGED <<spot_table, edge_table, caller_edge_table, arg, result,
                   calls, series, passes, csv_files, saved>>

NextLoader ==
    \/ \E o \in Offsets : \E d \in DataTypes :
       \E group \in {"Wildtype", "control", "treatment"} :
           RunSingleReplicate(o, d, group)
    \/ RunWildtype
    \/ RunTreatmentControl

SpecLoader == InitLoader /\ [][NextLoader]_vars

(***************************************************************************)
(* The radial analysis over every offset folder, and the runs of the       *)
(* pipeline on folders that hold data.                                     *)
(***************************************************************************)
\* Each intermediate table is bound as the one element of a set, so that
\* it is computed once, as the code computes it.
\*
\* run_radial_analysis(offset_folder), lines 161-171: the two loads, the
\* analyzer, the persistence pass; any exception ends it
run_radial_analysis_offset(files, offset) ==
    CHOOSE out \in
        {IF spot_data.raised # "none"
         THEN [raised |-> spot_data.raised, frame |-> NoFrame]
         ELSE IF edge_data.raised # "none"
         THEN [raised |-> edge_data.raised, frame |-> NoFrame]
         ELSE CHOOSE processed \in
                  {[raised |-> r.raised, frame |-> r.frame] :
                       r \in {run_radial_analysis(spot_data.frame.rows,
                                                  edge_data.frame.rows)}} : TRUE :
             spot_data \in {run_single_replicate(files, offset, "spots", "Wildtype")},
             edge_data \in {run_single_replicate(files, offset, "edges", "Wildtype")}} :
        TRUE

\* a loop over the offset folders that an exception ends
RECURSIVE RadialLoopUnhandled(_, _, _, _)
RadialLoopUnhandled(files, offsets, all_edges, attempts) ==
    IF offsets = <<>>
    THEN [raised |-> "none", all_edges |-> all_edges, attempts |-> attempts]
    ELSE CHOOSE out \in
        {IF r.raised # "none"
         THEN [raised |-> r.raised, all_edges |-> all_edges,
               attempts |-> Append(attempts, [offset |-> offsets[1],
                                              raised |-> r.raised])]
         ELSE RadialLoopUnhandled(files, Tail(offsets),
                  Append(all_edges, r.frame),
                  Append(attempts, [offset |-> offsets[1], raised |-> r.raised])) :
             r \in {run_radial_analysis_offset(files, offsets[1])}} : TRUE

\* lines 179-185: the loop; an exception is printed and the loop goes on
RECURSIVE RadialLoop(_, _, _, _)
RadialLoop(files, offsets, all_edges, attempts) ==
    IF offsets = <<>>
    THEN [raised |-> "none", all_edges |-> all_edges, attempts |-> attempts]
    ELSE CHOOSE out \in
        {RadialLoop(files, Tail(offsets),
             IF r.raised = "none" THEN Append(all_edges, r.frame) ELSE all_edges,
             Append(attempts, [offset |-> offsets[1], raised |-> r.raised])) :
             r \in {run_radial_analysis_offset(files, offsets[1])}} : TRUE

\* run_radial_analysis_all, lines 173-196
run_radial_analysis_all(files) ==
    CHOOSE out \in
        {IF l.raised # "none"
         THEN [raised |-> l.raised, frame |-> NoFrame, saved |-> <<>>,
               attempts |-> l.attempts]
         ELSE IF l.all_edges # <<>>
         THEN CHOOSE returned \in
                  {[raised |-> "none", frame |-> combined_edges,
                    saved |-> <<[path |-> <<"radial", "edges">>,
                                 frame |-> combined_edges]>>,
                    attempts |-> l.attempts] :
                       combined_edges \in {concat(l.all_edges)}} : TRUE
         ELSE [raised |-> "none", frame |-> EmptyFrame, saved |-> <<>>,
               attempts |-> l.attempts] :
             l \in {RadialLoop(files, discover_offsets(files), <<>>, <<>>)}} : TRUE

\* the data rows a spots or edges CSV file may hold
SpotRows ==
    {<<[ID |-> 1, POSITION_X |-> 0, POSITION_Y |-> 0, POSITION_T |-> 0]>>,
     <<[ID |-> 1, POSITION_X |-> 0, POSITION_Y |-> 0, POSITION_T |-> 0],
       [ID |-> 2, POSITION_X |-> 1, POSITION_Y |-> 2, POSITION_T |-> 60]>>}
EdgeRows == {<<>>, <<[SPOT_SOURCE_ID |-> 1, SPOT_TARGET_ID |-> 2]>>}

\* below each of three offset folders, each data-type folder is missing or
\* holds one CSV file; an offset folder with nothing below it is not there
InitPipeline ==
    /\ NoAnalyzer
    /\ \E present \in SUBSET ((DOMAIN OffsetOrder) \X (DOMAIN DataTypeOrder)) :
       \E spots \in [DOMAIN OffsetOrder -> SpotRows] :
       \E edges \in [DOMAIN OffsetOrder -> EdgeRows] :
           /\ \A i \in DOMAIN OffsetOrder :
                 /\ <<i, 1>> \notin present => spots[i] = CHOOSE r \in SpotRows : TRUE
                 /\ <<i, 2>> \notin present => edges[i] = <<>>
           /\ csv_files =
                 {[folder |-> WildtypeFolder(OffsetOrder[q[1]], DataTypeOrder[q[2]]),
                   stem |-> <<"c1", DataTypeOrder[q[2]]>>,
                   rows |-> CASE q[2] = 1 -> spots[q[1]]
                              [] q[2] = 2 -> edges[q[1]]
                              [] q[2] = 3 -> <<[TRACK_ID |-> 0]>>] :
                      q \in present}

RunRadialAnalysisAll ==
    \E r \in {run_radial_analysis_all(csv_files)} :
        /\ op' = "run_radial_analysis_all"
        /\ raised' = r.raised
        /\ result' = r.frame
        /\ calls' = r.attempts
        /\ saved' = r.saved
        /\ loaded' = {}
        /\ UNCHANGED <<spot_table, edge_table, caller_edge_table, arg,
                       series, passes, csv_files>>

NextPipeline ==
    \/ RunWildtype
    \/ RunRadialAnalysisAll

SpecPipeline == InitPipeline /\ [][NextPipeline]_vars

(***************************************************************************)
(* Vocabulary of the properties, defined on the input tables alone         *)
(***************************************************************************)
\* positions in the spot table of the spots of file f
SpotsOf(f) == {i \in DOMAIN spot_table : spot_table[i].File_ID = f}

RECURSIVE SumOver(_, _)
SumOver(S, coord) ==
    IF S = {} THEN 0
    ELSE LET i == CHOOSE j \in S : TRUE
         IN  (IF coord = "x" THEN spot_table[i].POSITION_X
              ELSE spot_table[i].POSITION_Y) + SumOver(S \ {i}, coord)

\* the spot an id refers to within file f: the first row with that ID
HasSpot(f, id) == \E i \in SpotsOf(f) : spot_table[i].ID = id
SpotOf(f, id) ==
    spot_table[CHOOSE i \in SpotsOf(f) :
                  /\ spot_table[i].ID = id
                  /\ \A j \in SpotsOf(f) : spot_table[j].ID = id => i <= j]

Resolves(e) ==
    HasSpot(e.File_ID, e.SPOT_SOURCE_ID) /\ HasSpot(e.File_ID, e.SPOT_TARGET_ID)

Labels(rows) == [i \in 1 .. Len(rows) |-> rows[i].index]

Returned == op # "init" /\ raised = "none"
\* the call returned a table that carries the computed columns
Processed == Returned /\ RadialColumns \subseteq result.columns
Rows == {result.rows[i] : i \in 1 .. Len(result.rows)}

\* n * (centroid - source) of a processed row, from the spot table
ToCentreX(row) ==
    SumOver(SpotsOf(row.File_ID), "x") - Cardinality(SpotsOf(row.File_ID)) * row.source_x
ToCentreY(row) ==
    SumOver(SpotsOf(row.File_ID), "y") - Cardinality(SpotsOf(row.File_ID)) * row.source_y
AtCentre(row) == ToCentreX(row) = 0 /\ ToCentreY(row) = 0
Dot(row) == row.u * ToCentreX(row) + row.v * ToCentreY(row)
Cross(row) == row.u * ToCentreY(row) - row.v * ToCentreX(row)
Moves(row) == row.u # 0 \/ row.v # 0
\* the displacement is a positive multiple of (centroid - source)
Toward(row) == ~AtCentre(row) /\ Moves(row) /\ Cross(row) = 0 /\ Dot(row) > 0
Away(row) == ~AtCentre(row) /\ Moves(row) /\ Cross(row) = 0 /\ Dot(row) < 0
Tangential(row) == ~AtCentre(row) /\ Moves(row) /\ Dot(row) = 0

Sign(x) == IF x > 0 THEN 1 ELSE IF x < 0 THEN -1 ELSE 0
\* a / sqrt(b) = c / sqrt(d), for b, d > 0
SurdEq(a, b, c, d) == Sign(a) = Sign(c) /\ a * a * d = c * c * b

(***************************************************************************)
(* Properties                                                              *)
(***************************************************************************)

\* C1: process_file returns exactly the edges of the file whose source and
\* target ids both resolve to a spot of the same file, in their order; an
\* edge with an unresolved id is absent and every other edge is present.
C1_ResolvedEdgesReturned ==
    op = "process_file" =>
        /\ raised = "none"
        /\ Labels(result.rows) =
               Labels(SelectSeq(edge_table,
                                LAMBDA e : e.File_ID = arg /\ Resolves(e)))

C2_AwayRowEmitted ==
    Processed /\ \E row \in Rows : Away(row) /\ row.radial_velocity.num > 0
C2_TangentialRowEmitted ==
    Processed /\ \E row \in Rows : Tangential(row) /\ row.radial_velocity.num = 0

\* the edges of file f whose source spot lies exactly at the centroid of f
CentreEdges(f) ==
    {i \in DOMAIN edge_table :
        /\ edge_table[i].File_ID = f
        /\ Resolves(edge_table[i])
        /\ LET s == SpotOf(f, edge_table[i].SPOT_SOURCE_ID)
               n == Cardinality(SpotsOf(f))
           IN  /\ n * s.POSITION_X = SumOver(SpotsOf(f), "x")
               /\ n * s.POSITION_Y = SumOver(SpotsOf(f), "y")}

RowDt(row) ==
    SpotOf(row.File_ID, row.SPOT_TARGET_ID).POSITION_T
        - SpotOf(row.File_ID, row.SPOT_SOURCE_ID).POSITION_T

\* C4: an edge whose source and target spots have zero elapsed time between
\* them has no row in the output of process_file.
C4_ZeroDtDropped ==
    Returned => \A row \in Rows : Resolves(row) => RowDt(row) # 0

\* C5: an input edge with SPOT_SOURCE_ID = SPOT_TARGET_ID = 0 never appears
\* in the output of process_file or process_all_files, whether or not a spot
\* with ID 0 exists in the file.
C5_SentinelNeverEmitted ==
    Returned => \A row \in Rows :
        ~(row.SPOT_SOURCE_ID = 0 /\ row.SPOT_TARGET_ID = 0)

\* C6: center_x / center_y of every output row equal the arithmetic mean of
\* POSITION_X / POSITION_Y over all spots of the row's File_ID, and are the
\* same for every permutation of the rows of the spot table.
C6_CentroidIsMean ==
    Processed => \A row \in Rows :
        LET S == SpotsOf(row.File_ID)
            n == Cardinality(S)
        IN  /\ n > 0 /\ row.center_x.den > 0 /\ row.center_y.den > 0
            /\ row.center_x.num * n = SumOver(S, "x") * row.center_x.den
            /\ row.center_y.num * n = SumOver(S, "y") * row.center_y.den
            /\ \A p \in Permutations(DOMAIN spot_table) :
                  LET permuted == [i \in DOMAIN spot_table |-> spot_table[p[i]]]
                      c == Centroid(SelectSeq(permuted,
                                        LAMBDA s : s.File_ID = row.File_ID))
                  IN  /\ c.x.num * row.center_x.den = row.center_x.num * c.x.den
                      /\ c.y.num * row.center_y.den = row.center_y.num * c.y.den

C6_MeanOfSeveralSpots ==
    /\ Processed
    /\ \E row \in Rows : \E i, j \in SpotsOf(row.File_ID) :
          /\ spot_table[i].POSITION_X # spot_table[j].POSITION_X
          /\ spot_table[i].POSITION_Y # spot_table[j].POSITION_Y
          /\ row.center_x.den = 2

\* C7: on every emitted row radial_velocity = -(u*ux + v*uy) / dt, dt being
\* the elapsed time in minutes between the source and the target spot, so
\* that radial_velocity * dt_seconds = 60 * -(u*ux + v*uy).
C7_VelocityPerMinute ==
    Processed => \A row \in Rows :
        (~AtCentre(row) /\ RowDt(row) # 0) =>
            SurdEq(row.radial_velocity.num * RowDt(row), row.radial_velocity.sq,
                   -60 * Dot(row),
                   ToCentreX(row) * ToCentreX(row) + ToCentreY(row) * ToCentreY(row))

SpotFileIds == {spot_table[i].File_ID : i \in DOMAIN spot_table}
FirstPos(f) == CHOOSE i \in SpotsOf(f) : \A j \in SpotsOf(f) : i <= j
Unlabel(row) == [row EXCEPT !.index = 0]
Unlabelled(rows) == [i \in 1 .. Len(rows) |-> Unlabel(rows[i])]

\* C8: an unresolved spot id, a degenerate geometry or an empty group in one
\* file never makes process_all_files raise or lose other files' rows: the
\* call completes and its result holds the processed rows of every file
\* whose own processing succeeds.
C8_RecoverableNeverFatal ==
    op = "process_all_files" =>
        /\ raised = "none"
        /\ \A f \in SpotFileIds :
              LET r == process_file(spot_table, edge_table, f)
              IN  r.raised = "none" =>
                      \A i \in 1 .. Len(r.frame.rows) :
                          \E row \in Rows : Unlabel(row) = Unlabel(r.frame.rows[i])

\* C9: for a File_ID with zero spots and some edges, and for a File_ID with
\* spots and zero edges, process_file returns zero rows and raises nothing.
C9_EmptyGroupEmptyResult ==
    (/\ op = "process_file"
     /\ \/ SpotsOf(arg) = {}
        \/ \A i \in DOMAIN edge_table : edge_table[i].File_ID # arg) =>
        /\ raised = "none"
        /\ result.rows = <<>>

\* C10: process_all_files processes each distinct File_ID of the spot table
\* exactly once, in order of first appearance, and returns the per-file
\* results concatenated in that order, rows of a file in edge-table order;
\* no edge of a file without spots is in the result.
C10_ConcatInFileOrder ==
    op = "process_all_files" =>
        /\ raised = "none"
        /\ Len(calls) = Cardinality(SpotFileIds)
        /\ {calls[i] : i \in 1 .. Len(calls)} = SpotFileIds
        /\ \A i, j \in 1 .. Len(calls) :
              i < j => FirstPos(calls[i]) < FirstPos(calls[j])
        /\ Unlabelled(result.rows) =
              Unlabelled(ConcatRows(
                  [i \in 1 .. Len(calls) |->
                      process_file(spot_table, edge_table, calls[i]).frame]))
        /\ \A row \in Rows : row.File_ID \in SpotFileIds

\* C11: when no file yields output, process_all_files returns a table with
\* zero rows that still has the edge columns and the eleven computed columns.
C11_EmptyKeepsColumns ==
    (op = "process_all_files" /\ raised = "none" /\ result.rows = <<>>) =>
        (EdgeColumns \cup RadialColumns) \subseteq result.columns

\* no edge belongs to a file that has spots: no file yields a processed edge
NoFileYields ==
    \A i \in DOMAIN edge_table : edge_table[i].File_ID \notin SpotFileIds

\* C12: when no File_ID yields a processed edge, process_all_files followed
\* by calculate_radial_persistence hands the caller an empty result and
\* raises no exception.
C12_NoDataNotFatal ==
    (op = "run_radial_analysis" /\ NoFileYields) =>
        raised = "none" /\ result.rows = <<>>

\* a persistence pass has written its column into the table at hand
Persisted == raised = "none" /\ "radial_persistence" \in result.columns
Speed2(row) == row.u * row.u + row.v * row.v

\* C13: on every row of process_file passed through
\* calculate_radial_persistence, radial_persistence lies in [-1, 1] when
\* sqrt(u^2 + v^2) is not 0 (radial_velocity^2 <= u^2 + v^2), and is exactly
\* 0 when u = v = 0.
C13_PersistenceInRange ==
    Persisted => \A row \in Rows :
        /\ row.radial_persistence.sq > 0 /\ row.radial_velocity.sq > 0
        /\ Speed2(row) # 0 =>
              /\ row.radial_persistence.num * row.radial_persistence.num
                     <= row.radial_persistence.sq
              /\ row.radial_velocity.num * row.radial_velocity.num
                     <= row.radial_velocity.sq * Speed2(row)
        /\ Speed2(row) = 0 => row.radial_persistence.num = 0

C13_ObliqueRowPersisted ==
    /\ Persisted
    /\ \E row \in Rows :
          /\ Speed2(row) # 0 /\ row.radial_persistence.num # 0
          /\ row.radial_persistence.num * row.radial_persistence.num
                 < row.radial_persistence.sq

\* C14: a second calculate_radial_persistence on a table that already went
\* through one leaves the radial_persistence of every row at the same value.
C14_Idempotent ==
    [][(Persisted /\ CalculateRadialPersistence) =>
          /\ raised' = "none"
          /\ Len(result'.rows) = Len(result.rows)
          /\ \A i \in 1 .. Len(result.rows) :
                SurdEq(result'.rows[i].radial_persistence.num,
                       result'.rows[i].radial_persistence.sq,
                       result.rows[i].radial_persistence.num,
                       result.rows[i].radial_persistence.sq)]_vars

C14_SecondPassDone ==
    /\ Persisted /\ passes = 2
    /\ \E row \in Rows : row.radial_persistence.num # 0 /\ Speed2(row) > 1

WithoutPersistence(row) ==
    [c \in DOMAIN row \ {"radial_persistence"} |-> row[c]]

\* C18: calculate_radial_persistence changes nothing in its table but the
\* radial_persistence column: same rows in the same order, every other
\* column as before, and the Series returned is that column.
C18_OnlyPersistenceColumn ==
    [][CalculateRadialPersistence =>
          /\ result'.columns \ {"radial_persistence"}
                 = result.columns \ {"radial_persistence"}
          /\ Len(result'.rows) = Len(result.rows)
          /\ \A i \in 1 .. Len(result.rows) :
                WithoutPersistence(result'.rows[i]) = WithoutPersistence(result.rows[i])
          /\ raised' = "none" =>
                series' = [i \in 1 .. Len(result'.rows) |->
                              result'.rows[i].radial_persistence]]_vars

C18_PassOverStillRow ==
    /\ Persisted /\ op = "calculate_radial_persistence" /\ passes = 1
    /\ \E row \in Rows : Speed2(row) = 0
    /\ Len(series) = Len(result.rows)

\* C15: construction and every process_file / process_all_files call leave
\* the caller's spot table and edge table as they were (same rows, same
\* columns, same values); the computed columns are only in the returned copy.
C15_InputsUntouched ==
    [][/\ spot_table' = spot_table
       /\ caller_edge_table' = caller_edge_table
       /\ \A i \in DOMAIN caller_edge_table' :
             DOMAIN caller_edge_table'[i] = EdgeColumns \cup {"index"}]_vars

C15_ColumnsOnlyInCopy ==
    /\ op = "process_file" /\ Processed /\ result.rows # <<>>
    /\ caller_edge_table = edge_table
    /\ \A i \in DOMAIN caller_edge_table :
          DOMAIN caller_edge_table[i] = EdgeColumns \cup {"index"}

\* the rows of table t that carry File_ID f
OfFile(t, f) == SelectSeq(t, LAMBDA r : r.File_ID = f)

\* C16: the rows process_all_files puts out for a File_ID are those it puts
\* out when given that file's spots and edges alone, whatever the spots and
\* edges of the other files are.
C16_FileRowsIndependent ==
    op = "process_all_files" => \A f \in Files :
        LET alone == process_all_files(OfFile(spot_table, f), OfFile(edge_table, f))
        IN  (alone.raised = "none" /\ alone.frame.rows # <<>>) =>
                /\ raised = "none"
                /\ Unlabelled(OfFile(result.rows, f)) = Unlabelled(alone.frame.rows)

SameAcquisition(a, b) ==
    /\ a.data_type = "spots" /\ b.data_type = "edges"
    /\ Len(a.file.folder) = Len(b.file.folder)
    /\ SubSeq(a.file.folder, 1, Len(a.file.folder) - 1)
           = SubSeq(b.file.folder, 1, Len(b.file.folder) - 1)
    /\ a.file.folder[Len(a.file.folder)] = <<"spots">>
    /\ b.file.folder[Len(b.file.folder)] = <<"edges">>
    /\ \E base \in {<<"c1">>, <<"c2">>} :
          a.file.stem = base \o <<"spots">> /\ b.file.stem = base \o <<"edges">>

\* C19: the rows of <base>_spots.csv and of <base>_edges.csv of one
\* replicate get the same File_ID, in the wildtype layout and in the
\* treatment/control layout.
C19_PairSharesFileId ==
    \A a \in loaded : \A b \in loaded :
        SameAcquisition(a, b) => a.File_ID = b.File_ID

C19_PairLoadedInGroupLayout ==
    \E a \in loaded : \E b \in loaded :
        SameAcquisition(a, b) /\ Len(a.file.folder) = 3

C19_PairLoadedInWildtypeLayout ==
    \E a \in loaded : \E b \in loaded :
        SameAcquisition(a, b) /\ Len(a.file.folder) = 2

\* C20: two distinct CSV files of one data type loaded in one run never get
\* the same File_ID.
C20_FileIdUnique ==
    \A a \in loaded : \A b \in loaded :
        (a.file # b.file /\ a.data_type = b.data_type) => a.File_ID # b.File_ID

\* the offset folders that exist, in sorted order
OffsetFolders ==
    SelectSeq(OffsetOrder, LAMBDA o : \E f \in csv_files : f.folder[1] = o)

\* the rows of the offset folders whose radial analysis ends without an
\* exception, folder after folder
RECURSIVE RadialRowsOf(_)
RadialRowsOf(offsets) ==
    IF offsets = <<>> THEN <<>>
    ELSE LET r == run_radial_analysis_offset(csv_files, offsets[1])
         IN  (IF r.raised = "none" THEN Unlabelled(r.frame.rows) ELSE <<>>)
                 \o RadialRowsOf(Tail(offsets))

\* the rows of one data type of the offset folders whose load ends without
\* an exception, folder after folder
RECURSIVE LoadedRowsOf(_, _)
LoadedRowsOf(data_type, offsets) ==
    IF offsets = <<>> THEN <<>>
    ELSE LET r == run_single_replicate(csv_files, offsets[1], data_type, "Wildtype")
         IN  (IF r.raised = "none" THEN r.frame.rows ELSE <<>>)
                 \o LoadedRowsOf(data_type, Tail(offsets))

AttemptsOf(data_type) ==
    SelectSeq(calls, LAMBDA c : c.data_type = data_type)

\* C21: in run_wildtype and run_radial_analysis_all an exception raised for
\* one offset folder is caught, every offset folder is still tried in
\* sorted order, and the call returns the successful folders' results
\* combined (an empty table when none succeeded); run_wildtype writes one
\* file each for spots, edges, tracks in that order, also for an empty
\* table, and raises FileNotFoundError only when there is no offset folder.
C21_FaultIsolation ==
    /\ op = "run_radial_analysis_all" =>
          /\ raised = "none"
          /\ [i \in DOMAIN calls |-> calls[i].offset] = OffsetFolders
          /\ Unlabelled(result.rows) = RadialRowsOf(OffsetFolders)
          /\ Labels(result.rows) = [i \in 1 .. Len(result.rows) |-> i - 1]
          /\ (\A i \in DOMAIN calls : calls[i].raised # "none") =>
                result = EmptyFrame
    /\ op = "run_wildtype" =>
          /\ raised = (IF OffsetFolders = <<>> THEN "FileNotFoundError" ELSE "none")
          /\ raised = "none" =>
                /\ [i \in DOMAIN saved |-> saved[i].path]
                       = [i \in DOMAIN DataTypeOrder |-> <<"wildtype", DataTypeOrder[i]>>]
                /\ \A i \in DOMAIN DataTypeOrder :
                      LET data_type == DataTypeOrder[i]
                          rows == LoadedRowsOf(data_type, OffsetFolders)
                          tried == AttemptsOf(data_type)
                      IN  /\ saved[i].frame = result[i]
                          /\ [k \in DOMAIN tried |-> tried[k].offset] = OffsetFolders
                          /\ result[i].rows = IF data_type = "edges"
                                              THEN WithIndex(rows) ELSE rows
                          /\ (\A k \in DOMAIN tried : tried[k].raised # "none") =>
                                result[i] = EmptyFrame

C21_LaterFolderAfterFailure ==
    /\ op = "run_radial_analysis_all" /\ raised = "none" /\ result.rows # <<>>
    /\ \E i \in DOMAIN calls : \E j \in DOMAIN calls :
          i < j /\ calls[i].raised # "none" /\ calls[j].raised = "none"

C21_EmptyTableWritten ==
    /\ op = "run_wildtype" /\ raised = "none" /\ Len(saved) = 3
    /\ saved[1].frame.rows # <<>> /\ saved[2].frame = EmptyFrame
    /\ \E k \in DOMAIN calls : calls[k].raised = "ValueError"

====
